---- MODULE Spec2Model ----
(***************************************************************************)
(* A model of dmc/ensemble.py: the partitioning of a test frame by the     *)
(* known/unknown pattern of four identifier columns (split), and the       *)
(* per-partition lifecycle of ECEnsemble (construct, transform, classify,  *)
(* report, dump_results).                                                  *)
(*                                                                         *)
(* A data frame is a record                                                *)
(*   [columns : sequence of column names,                                  *)
(*    dtype   : column name -> "object" | "float64" | "bool",              *)
(*    rows    : sequence of [index : row label, data : column -> value]].  *)
(* Cell values are integers; NaN is a marker outside every value range.    *)
(***************************************************************************)
EXTENDS Integers, Sequences, FiniteSets, TLC

VARIABLES pc, train, test, params, splits, out

vars == <<pc, train, test, params, splits, out>>

\* Bounds of the inputs.
MaxTrain == 2
MaxTest == 2
MaxSample == 2

NaN == 0 - 1
None == 0 - 2

\* ------------------------------------------------------------------ frames

Range(s) == {s[i] : i \in DOMAIN s}

Columns == <<"articleID", "customerID", "voucherID", "productGroup", "rrp", "returnQuantity">>

DType == [articleID |-> "object", customerID |-> "object", voucherID |-> "object",
          productGroup |-> "float64", rrp |-> "float64", returnQuantity |-> "float64"]

Frame(rowdata) ==
    [columns |-> Columns,
     dtype |-> DType,
     rows |-> [i \in DOMAIN rowdata |-> [index |-> i, data |-> rowdata[i]]]]

Column(frame, col) == [i \in DOMAIN frame.rows |-> frame.rows[i].data[col]]

Drop(frame, cols) ==
    [columns |-> SelectSeq(frame.columns, LAMBDA c : c \notin cols),
     dtype |-> [c \in Range(frame.columns) \ cols |-> frame.dtype[c]],
     rows |-> [i \in DOMAIN frame.rows |->
                 [index |-> frame.rows[i].index,
                  data |-> [c \in Range(frame.columns) \ cols |-> frame.rows[i].data[c]]]]]

ConcatColumns(left, right) ==
    [columns |-> left.columns \o right.columns,
     dtype |-> [c \in Range(left.columns) \cup Range(right.columns) |->
                  IF c \in Range(left.columns) THEN left.dtype[c] ELSE right.dtype[c]],
     rows |-> [i \in DOMAIN left.rows |->
                 [index |-> left.rows[i].index,
                  data |-> [c \in Range(left.columns) \cup Range(right.columns) |->
                              IF c \in Range(left.columns) THEN left.rows[i].data[c]
                              ELSE right.rows[i].data[c]]]]]

\* ------------------------------------------------- add_recognition_vector

\* Series.isin: hash-table membership, in which a missing value matches a
\* missing value.
isin_ieee(value, values) == value # NaN /\ value \in Range(values)

isin(value, values) ==
    IF value = NaN THEN \E i \in DOMAIN values : values[i] = NaN
    ELSE \E i \in DOMAIN values : values[i] = value

add_recognition_vector(trainFrame, testFrame, columns) ==
    [columns |-> [i \in DOMAIN columns |-> "known_" \o columns[i]],
     dtype |-> [c \in {"known_" \o columns[i] : i \in DOMAIN columns} |-> "bool"],
     rows |-> [r \in DOMAIN testFrame.rows |->
                 [index |-> testFrame.rows[r].index,
                  data |-> [c \in {"known_" \o columns[i] : i \in DOMAIN columns} |->
                              LET i == CHOOSE j \in DOMAIN columns : "known_" \o columns[j] = c
                              IN isin(testFrame.rows[r].data[columns[i]],
                                      Column(trainFrame, columns[i]))]]]]

\* ------------------------------------------------------------------ split

potentially_unknown == <<"articleID", "customerID", "voucherID", "productGroup">>

RowMask(row, by) == [i \in DOMAIN by |-> row.data[by[i]]]

\* The tuples of k booleans in sort order (False before True, first column
\* most significant): the order in which groupby yields its groups.
SortedMasks(k) == [n \in 1..(2^k) |-> [i \in 1..k |-> ((n - 1) \div (2^(k - i))) % 2 = 1]]

groupby_first(frame, by) ==
    LET observed == SelectSeq(SortedMasks(Len(by)),
                        LAMBDA m : \E r \in DOMAIN frame.rows : RowMask(frame.rows[r], by) = m)
    IN [g \in DOMAIN observed |->
          [mask |-> observed[g],
           group |-> [frame EXCEPT !.rows =
                        SubSeq(SelectSeq(frame.rows, LAMBDA row : RowMask(row, by) = observed[g]),
                               1, 1)]]]

groupby(frame, by) ==
    LET observed == SelectSeq(SortedMasks(Len(by)),
                        LAMBDA m : \E r \in DOMAIN frame.rows : RowMask(frame.rows[r], by) = m)
    IN [g \in DOMAIN observed |->
          [mask |-> observed[g],
           group |-> [frame EXCEPT !.rows =
                        SelectSeq(frame.rows, LAMBDA row : RowMask(row, by) = observed[g])]]]

RECURSIVE Join(_)
Join(strings) == IF strings = <<>> THEN "" ELSE Head(strings) \o Join(Tail(strings))

\* A key is a string of 'k' and 'u'; it is kept as its sequence of characters.
PartitionKey_swapped(mask) == [i \in DOMAIN mask |-> IF mask[i] THEN "u" ELSE "k"]

PartitionKey(mask) == [i \in DOMAIN mask |-> IF mask[i] THEN "k" ELSE "u"]

Specifier(mask) ==
    Join([i \in DOMAIN mask |-> (IF mask[i] THEN "k" ELSE "u") \o potentially_unknown[i]])

unknown_columns(mask) == {potentially_unknown[i] : i \in {j \in DOMAIN mask : ~mask[j]}}

nan_columns_none(group) == {}

nan_columns(group) ==
    {col \in Range(group.columns) :
        /\ col # "returnQuantity"
        /\ group.dtype[col] = "float64"
        /\ \E r \in DOMAIN group.rows : group.rows[r].data[col] = NaN}

split(trainFrame, testFrame) ==
    LET known_mask == add_recognition_vector(trainFrame, testFrame, potentially_unknown)
        joined == ConcatColumns(testFrame, known_mask)
        splitters == known_mask.columns
        groups == groupby(joined, splitters)
    IN [g \in DOMAIN groups |->
          LET mask == groups[g].mask
              group == groups[g].group
              dropped == unknown_columns(mask) \cup nan_columns(group)
          IN [key |-> PartitionKey(mask),
              train |-> Drop(trainFrame, dropped),
              test |-> Drop(group, dropped \cup Range(splitters)),
              name |-> Specifier(mask)]]

\* ----------------------------------------------------------------- inputs

SeqsUpTo(S, n) == UNION {[1..k -> S] : k \in 0..n}

\* Rows of the frames handed to split(): identifiers that may be new in the
\* test frame, and the columns that may hold missing values (voucherID as
\* text, productGroup and rrp as numbers).  The test frame is unlabelled.
SplitTrainRows ==
    {[articleID |-> 1, customerID |-> 1, voucherID |-> v, productGroup |-> v,
      rrp |-> 1, returnQuantity |-> 1] : v \in {1, NaN}}

SplitTestRows ==
    [articleID : {1, 2}, customerID : {1}, voucherID : {1, NaN}, productGroup : {1, NaN},
     rrp : {1, NaN}, returnQuantity : {NaN}]

NoParams == <<>>

\* ------------------------------------------- the specification of split()

InitSplit ==
    /\ pc = "init"
    /\ train \in {Frame(rows) : rows \in SeqsUpTo(SplitTrainRows, MaxTrain)}
    /\ test \in {Frame(rows) : rows \in SeqsUpTo(SplitTestRows, MaxTest)}
    /\ params = NoParams
    /\ splits = <<>>
    /\ out = <<>>

CallSplit ==
    /\ pc = "init"
    /\ pc' = "split"
    /\ splits' = split(train, test)
    /\ UNCHANGED <<train, test, params, out>>

NextSplit == CallSplit

SpecSplit == InitSplit /\ [][NextSplit]_vars

\* ------------------------------------------------------------- ECEnsemble

Merge(a, b) == [f \in DOMAIN a \cup DOMAIN b |-> IF f \in DOMAIN b THEN b[f] ELSE a[f]]

DefaultConfig == [sample |-> None, scaler |-> "default", ignore_features |-> None,
                  classifier |-> [proba |-> "ok", predicts |-> 1]]

_enrich_splits_default(partitions, config) ==
    [raised |-> FALSE,
     value |-> [i \in DOMAIN partitions |->
                  Merge(partitions[i],
                        IF partitions[i].key \in DOMAIN config
                        THEN config[partitions[i].key] ELSE DefaultConfig)]]

\* params[k] raises KeyError for a key without an entry.
_enrich_splits(partitions, config) ==
    IF \E i \in DOMAIN partitions : partitions[i].key \notin DOMAIN config
    THEN [raised |-> TRUE, value |-> <<>>]
    ELSE [raised |-> FALSE,
          value |-> [i \in DOMAIN partitions |->
                       Merge(partitions[i], config[partitions[i].key])]]

Min(a, b) == IF a <= b THEN a ELSE b

IndexPermutations(n) == {p \in [1..n -> 1..n] : \A i, j \in 1..n : p[i] = p[j] => i = j}

\* train.reindex(permutation)[:size]
_subsample(frame, size, perm) ==
    [frame EXCEPT !.rows = SubSeq([i \in DOMAIN perm |-> frame.rows[perm[i]]],
                                  1, Min(Len(frame.rows), size))]

transform_target_frame(frame) ==
    [columns |-> <<"returnQuantity">>,
     dtype |-> [c \in {"returnQuantity"} |-> "float64"],
     rows |-> [i \in DOMAIN frame.rows |->
                 [index |-> frame.rows[i].index,
                  data |-> [c \in {"returnQuantity"} |->
                              IF c \in Range(frame.columns) THEN frame.rows[i].data[c]
                              ELSE NaN]]]]

\* dmc.transformation.transform with binary_target: one feature row and one
\* 0/1 target per input row, in the input's order; a missing target stays
\* missing.
BinaryTarget(q) == IF q = NaN THEN NaN ELSE IF q > 0 THEN 1 ELSE 0

transform(rows, scaler, ignore_features) ==
    [X |-> [i \in DOMAIN rows |->
              [index |-> rows[i].index,
               features |-> [c \in DOMAIN rows[i].data \ {"returnQuantity"} |->
                               rows[i].data[c]]]],
     Y |-> [i \in DOMAIN rows |-> BinaryTarget(rows[i].data["returnQuantity"])]]

Truthy(sample) == sample # None /\ sample # 0

_transform_split(splinter, perm) ==
    LET trainFrame == IF Truthy(splinter.sample)
                      THEN _subsample(splinter.train, splinter.sample, perm)
                      ELSE splinter.train
        offset == Len(trainFrame.rows)
        data == trainFrame.rows \o splinter.test.rows
        XY == transform(data, splinter.scaler, splinter.ignore_features)
    IN Merge(splinter,
             [target |-> transform_target_frame(splinter.test),
              train |-> [X |-> SubSeq(XY.X, 1, offset), Y |-> SubSeq(XY.Y, 1, offset)],
              test |-> [X |-> SubSeq(XY.X, offset + 1, Len(data)),
                        Y |-> SubSeq(XY.Y, offset + 1, Len(data))]])

\* Classifiers are built from (features, target) and called on features; this
\* one predicts a fixed class.  proba says what predict_proba does: "ok"
\* (returns class probabilities), "absent" (no such method) or "raises".
ProbaKinds == {"ok", "absent", "raises"}

Predict(classifier, X) == [i \in DOMAIN X |-> classifier.predicts]

_classify_split_propagates(splinter) ==
    LET ypr == Predict(splinter.classifier, splinter.test.X)
    IN IF splinter.classifier.proba # "ok"
       THEN [raised |-> TRUE, value |-> splinter]
       ELSE [raised |-> FALSE,
             value |-> [splinter EXCEPT !.target =
                 [columns |-> <<"returnQuantity", "confidence", "prediction">>,
                  dtype |-> [c \in {"returnQuantity", "confidence", "prediction"} |-> "float64"],
                  rows |-> [i \in DOMAIN splinter.target.rows |->
                              [index |-> splinter.target.rows[i].index,
                               data |-> [returnQuantity |-> splinter.test.Y[i],
                                         confidence |-> 1,
                                         prediction |-> ypr[i]]]]]]]

\* The try block assigns the row-wise maximum class probability (1 for the
\* fixed-class classifier); the except block assigns NaN to the whole column.
_classify_split(splinter) ==
    LET ypr == Predict(splinter.classifier, splinter.test.X)
        confidence == IF splinter.classifier.proba = "ok" THEN 1 ELSE NaN
    IN [raised |-> FALSE,
        value |-> [splinter EXCEPT !.target =
            [columns |-> <<"returnQuantity", "confidence", "prediction">>,
             dtype |-> [c \in {"returnQuantity", "confidence", "prediction"} |-> "float64"],
             rows |-> [i \in DOMAIN splinter.target.rows |->
                         [index |-> splinter.target.rows[i].index,
                          data |-> [returnQuantity |-> splinter.test.Y[i],
                                    confidence |-> confidence,
                                    prediction |-> ypr[i]]]]]]]

ClassifyPrints(partitions) ==
    LET failing == SelectSeq([i \in DOMAIN partitions |-> i],
                             LAMBDA i : partitions[i].classifier.proba # "ok")
    IN [j \in DOMAIN failing |->
          [line |-> "Classifier offers no predict_proba method",
           key |-> partitions[failing[j]].key]]

\* ----------------------------------------------------------------- report

\* Scores are exact fractions <<numerator, denominator>> in lowest terms.
RECURSIVE Gcd(_, _)
Gcd(a, b) == IF b = 0 THEN a ELSE Gcd(b, a % b)

Fraction(n, d) == LET g == Gcd(n, d) IN <<n \div g, d \div g>>

Times(p, q) == Fraction(p[1] * q[1], p[2] * q[2])

Plus(p, q) == Fraction(p[1] * q[2] + q[1] * p[2], p[2] * q[2])

RECURSIVE Sum(_)
Sum(fractions) ==
    IF fractions = <<>> THEN <<0, 1>> ELSE Plus(Head(fractions), Sum(Tail(fractions)))

\* dmc.evaluation.precision: the share of predictions equal to the label.
precision(truth, prediction) ==
    Fraction(Cardinality({i \in DOMAIN truth : truth[i] = prediction[i]}), Len(truth))

Scored(splinter) ==
    ~ \E r \in DOMAIN splinter.target.rows : splinter.target.rows[r].data["returnQuantity"] = NaN

\* np.multiply: element by element for equal lengths, a single element is
\* repeated along the other operand, any other pair of lengths raises.
multiply(a, b) ==
    IF Len(a) = Len(b) THEN [raised |-> FALSE, value |-> [i \in DOMAIN a |-> Times(a[i], b[i])]]
    ELSE IF Len(a) = 1 THEN [raised |-> FALSE, value |-> [i \in DOMAIN b |-> Times(a[1], b[i])]]
    ELSE IF Len(b) = 1 THEN [raised |-> FALSE, value |-> [i \in DOMAIN a |-> Times(a[i], b[1])]]
    ELSE [raised |-> TRUE, value |-> <<>>]

report(partitions, test_size) ==
    LET scored == SelectSeq([i \in DOMAIN partitions |-> i], LAMBDA i : Scored(partitions[i]))
        PrecisionOf(i) ==
            precision(Column(partitions[i].target, "returnQuantity"),
                      Column(partitions[i].target, "prediction"))
        precs == [j \in DOMAIN scored |-> PrecisionOf(scored[j])]
        lines == [j \in DOMAIN scored |->
                    [line |-> "precision", key |-> partitions[scored[j]].key,
                     precision |-> precs[j],
                     size |-> Len(partitions[scored[j]].target.rows)]]
        partials == [i \in DOMAIN partitions |->
                       Fraction(Len(partitions[i].target.rows), test_size)]
        product == multiply(precs, partials)
    IN IF precs # <<>>
       THEN IF product.raised
            THEN [raised |-> TRUE, lines |-> lines]
            ELSE [raised |-> FALSE,
                  lines |-> Append(lines, [line |-> "OVERALL", value |-> Sum(product.value)])]
       ELSE [raised |-> FALSE,
             lines |-> Append(lines, [line |-> "Target set has no evaluation labels"])]

\* ----------------------------------------------------------- dump_results

\* pd.concat of the target frames, then two column assignments on the frame
\* self.test names, aligned on the row index.
dump_results(frame, partitions) ==
    LET predicted == UNION {Range(partitions[i].target.rows) : i \in DOMAIN partitions}
        RowOf(index) == CHOOSE r \in predicted : r.index = index
    IN [columns |-> frame.columns \o <<"prediction", "confidence">>,
        dtype |-> [c \in Range(frame.columns) \cup {"prediction", "confidence"} |->
                     IF c = "prediction" THEN "int64"
                     ELSE IF c = "confidence" THEN "float64" ELSE frame.dtype[c]],
        rows |-> [i \in DOMAIN frame.rows |->
                    [index |-> frame.rows[i].index,
                     data |-> [c \in Range(frame.columns) \cup {"prediction", "confidence"} |->
                                 IF c \in {"prediction", "confidence"}
                                 THEN RowOf(frame.rows[i].index).data[c]
                                 ELSE frame.rows[i].data[c]]]]]

CsvLine(frame) ==
    [line |-> "data/predicted.csv",
     rows |-> [i \in DOMAIN frame.rows |->
                 [c \in {"articleID", "confidence", "prediction"} |-> frame.rows[i].data[c]]]]

\* ------------------------------------------- inputs of the whole pipeline

TrainRow == [articleID |-> 1, customerID |-> 1, voucherID |-> 1, productGroup |-> 1,
             rrp |-> 1, returnQuantity |-> 1]

TestRows ==
    [articleID : {1, 2}, customerID : {1}, voucherID : {1}, productGroup : {1},
     rrp : {1}, returnQuantity : {0, 1, NaN}]

\* A configuration either subsamples (with a classifier that offers
\* predict_proba) or uses a classifier whose predict_proba fails.
Configs ==
    [sample : {None} \cup 0..MaxSample, scaler : {None}, ignore_features : {None},
     classifier : [proba : {"ok"}, predicts : {1}]]
    \cup [sample : {None}, scaler : {None}, ignore_features : {None},
          classifier : [proba : ProbaKinds \ {"ok"}, predicts : {1}]]

\* Only the entries of the keys split() emits are ever read.
ParamChoices(partitions) ==
    UNION {[keys -> Configs] : keys \in SUBSET {partitions[i].key : i \in DOMAIN partitions}}

Init ==
    /\ pc = "init"
    /\ train = Frame([i \in 1..MaxTrain |-> TrainRow])
    /\ test \in {Frame(rows) : rows \in SeqsUpTo(TestRows, MaxTest)}
    /\ params \in ParamChoices(split(train, test))
    /\ splits = <<>>
    /\ out = <<>>

\* ECEnsemble(train, test, params)
Construct ==
    /\ pc = "init"
    /\ LET enriched == _enrich_splits(split(train, test), params)
       IN /\ pc' = IF enriched.raised THEN "failed" ELSE "constructed"
          /\ splits' = enriched.value
    /\ UNCHANGED <<train, test, params, out>>

\* transform(); each _subsample call draws its own permutation.
Transform ==
    /\ pc = "constructed"
    /\ LET sampled == {i \in DOMAIN splits : Truthy(splits[i].sample)}
           unused == [n \in 1..Len(train.rows) |-> n]
       IN \E perms \in [sampled -> IndexPermutations(Len(train.rows))] :
             splits' = [i \in DOMAIN splits |->
                          _transform_split(splits[i],
                                           IF i \in sampled THEN perms[i] ELSE unused)]
    /\ pc' = "transformed"
    /\ UNCHANGED <<train, test, params, out>>

\* classify(dump_results): every partition is classified in turn (an exception
\* leaving _classify_split would end the loop there), then report(), then
\* dump_results() when asked for.
Classify(dump) ==
    /\ pc = "transformed"
    /\ LET results == [i \in DOMAIN splits |-> _classify_split(splits[i])]
           raising == {i \in DOMAIN splits : results[i].raised}
           classified == [i \in DOMAIN splits |->
                            IF \A j \in raising : i < j THEN results[i].value ELSE splits[i]]
           printed == out \o ClassifyPrints(splits)
           reported == report(classified, Len(test.rows))
       IN IF raising # {}
          THEN /\ pc' = "classify_raised"
               /\ splits' = classified
               /\ out' = printed
               /\ test' = test
          ELSE /\ splits' = classified
               /\ IF reported.raised
                  THEN /\ pc' = "report_raised"
                       /\ out' = printed \o reported.lines
                       /\ test' = test
                  ELSE IF ~dump
                  THEN /\ pc' = "classified"
                       /\ out' = printed \o reported.lines
                       /\ test' = test
                  ELSE IF classified = <<>>
                  THEN /\ pc' = "dump_raised"
                       /\ out' = printed \o reported.lines
                       /\ test' = test
                  ELSE /\ pc' = "dumped"
                       /\ test' = dump_results(test, classified)
                       /\ out' = (printed \o reported.lines)
                                   \o <<CsvLine(dump_results(test, classified))>>
    /\ UNCHANGED <<train, params>>

\* dump_results() called by itself after classify()
DumpResults ==
    /\ pc = "classified"
    /\ IF splits = <<>>
       THEN /\ pc' = "dump_raised"
            /\ UNCHANGED <<test, out>>
       ELSE /\ pc' = "dumped"
            /\ test' = dump_results(test, splits)
            /\ out' = out \o <<CsvLine(dump_results(test, splits))>>
    /\ UNCHANGED <<train, params, splits>>

Next ==
    \/ Construct
    \/ Transform
    \/ \E dump \in BOOLEAN : Classify(dump)
    \/ DumpResults

Spec == Init /\ [][Next]_vars

\* ================================================================= claims

TestRowOf(row) == test.rows[row.index]

PartitionOf(r) == {g \in DOMAIN splits : \E i \in DOMAIN splits[g].test.rows :
                                            splits[g].test.rows[i].index = test.rows[r].index}

\* C1: the partitions split() returns partition the test rows: every test
\* row is in the test frame of exactly one partition, exactly once, with its
\* values; no partition is empty; the partition sizes sum to len(test).
RECURSIVE SumLen(_)
SumLen(partitions) ==
    IF partitions = <<>> THEN 0
    ELSE Len(Head(partitions).test.rows) + SumLen(Tail(partitions))

C1Partition ==
    pc = "split" =>
        /\ \A r \in DOMAIN test.rows :
              Cardinality({gi \in UNION {{<<g, i>> : i \in DOMAIN splits[g].test.rows} :
                                            g \in DOMAIN splits} :
                              splits[gi[1]].test.rows[gi[2]].index = test.rows[r].index}) = 1
        /\ \A g \in DOMAIN splits : \A i \in DOMAIN splits[g].test.rows :
              LET row == splits[g].test.rows[i]
              IN /\ row.index \in DOMAIN test.rows
                 /\ \A c \in DOMAIN row.data : row.data[c] = TestRowOf(row).data[c]
        /\ \A g \in DOMAIN splits : splits[g].test.rows # <<>>
        /\ SumLen(splits) = Len(test.rows)

C1Witness ==
    /\ pc = "split"
    /\ \E g \in DOMAIN splits : Len(splits[g].test.rows) = 2
    /\ Len(test.rows) = 2

\* C2: character i of the key of the partition that holds a test row is 'k'
\* exactly when the row's value in tracked column i occurs among the values
\* of that column in the training frame, and 'u' otherwise; the key has one
\* character per tracked column.
C2KeyMatchesMembership ==
    pc = "split" =>
        \A g \in DOMAIN splits :
            /\ Len(splits[g].key) = Len(potentially_unknown)
            /\ \A i \in DOMAIN potentially_unknown : \A j \in DOMAIN splits[g].test.rows :
                  LET col == potentially_unknown[i]
                      value == TestRowOf(splits[g].test.rows[j]).data[col]
                      seen == value \in {train.rows[t].data[col] : t \in DOMAIN train.rows}
                  IN splits[g].key[i] = (IF seen THEN "k" ELSE "u")

C2Witness ==
    /\ pc = "split"
    /\ Len(splits) = 2
    /\ \E g \in DOMAIN splits : "k" \in Range(splits[g].key) /\ "u" \in Range(splits[g].key)

\* The rows of the original test frame that a partition holds.
GroupRows(g) == {TestRowOf(splits[g].test.rows[i]) : i \in DOMAIN splits[g].test.rows}

Retained(g) == Range(splits[g].train.columns) \cup Range(splits[g].test.columns)

UnknownInKey(g) == {potentially_unknown[i] : i \in {j \in DOMAIN splits[g].key :
                                                        splits[g].key[j] = "u"}}

\* C3 as stated: the columns a partition retains exclude every tracked
\* column marked 'u' and every column other than returnQuantity with a
\* missing value in the partition's test rows, whatever its type; the mask
\* columns are absent from the test frame.
C3Original ==
    pc = "split" =>
        \A g \in DOMAIN splits :
            /\ Retained(g) \cap UnknownInKey(g) = {}
            /\ \A c \in Range(Columns) \ {"returnQuantity"} :
                  (\E row \in GroupRows(g) : row.data[c] = NaN) => c \notin Retained(g)
            /\ \A c \in Range(splits[g].test.columns) :
                  c \notin {"known_" \o potentially_unknown[i] : i \in DOMAIN potentially_unknown}

\* C3 as amended: the same, for the columns of float type only.
C3FloatColumns ==
    pc = "split" =>
        \A g \in DOMAIN splits :
            /\ Retained(g) \cap UnknownInKey(g) = {}
            /\ \A c \in Range(Columns) \ {"returnQuantity"} :
                  (DType[c] = "float64" /\ \E row \in GroupRows(g) : row.data[c] = NaN)
                      => c \notin Retained(g)
            /\ \A c \in Range(splits[g].test.columns) :
                  c \notin {"known_" \o potentially_unknown[i] : i \in DOMAIN potentially_unknown}

C3Witness ==
    /\ pc = "split"
    /\ \E g \in DOMAIN splits :
          /\ \E row \in GroupRows(g) : row.data["rrp"] = NaN
          /\ \E row \in GroupRows(g) : row.data["rrp"] # NaN
          /\ "rrp" \notin Retained(g)
          /\ splits[g].key[4] = "k"

\* C9 as stated: a test row whose value in a tracked column is NaN is never
\* marked known for that column, whatever the training frame holds.
C9Original ==
    pc = "split" =>
        LET known_mask == add_recognition_vector(train, test, potentially_unknown)
        IN \A r \in DOMAIN test.rows : \A i \in DOMAIN potentially_unknown :
              test.rows[r].data[potentially_unknown[i]] = NaN
                  => ~known_mask.rows[r].data["known_" \o potentially_unknown[i]]

\* C9 as amended: a NaN test value is marked known exactly when the same
\* column of the training frame holds a NaN.
C9NaNKnownIffTrainNaN ==
    pc = "split" =>
        LET known_mask == add_recognition_vector(train, test, potentially_unknown)
        IN \A r \in DOMAIN test.rows : \A i \in DOMAIN potentially_unknown :
              test.rows[r].data[potentially_unknown[i]] = NaN
                  => (known_mask.rows[r].data["known_" \o potentially_unknown[i]]
                        <=> \E t \in DOMAIN train.rows :
                               train.rows[t].data[potentially_unknown[i]] = NaN)

C9Witness ==
    /\ pc = "split"
    /\ \E r \in DOMAIN test.rows :
          /\ test.rows[r].data["voucherID"] = NaN
          /\ \E t \in DOMAIN train.rows : train.rows[t].data["voucherID"] = NaN
          /\ \E g \in PartitionOf(r) : splits[g].key[3] = "k"

\* ------------------------------------------------------ ECEnsemble claims

Reported == pc \in {"classified", "dumped", "dump_raised", "report_raised"}

ScoredPartitions == {i \in DOMAIN splits : Scored(splits[i])}

\* The size-weighted sum over the scored partitions, each precision times
\* the weight of its own partition.
OwnWeightSum ==
    LET Term(i) ==
            Times(precision(Column(splits[i].target, "returnQuantity"),
                            Column(splits[i].target, "prediction")),
                  Fraction(Len(splits[i].target.rows), Len(test.rows)))
        terms == [i \in DOMAIN splits |-> IF i \in ScoredPartitions THEN Term(i) ELSE <<0, 1>>]
    IN Sum(terms)

OverallLines == {out[n].value : n \in {m \in DOMAIN out : out[m].line = "OVERALL"}}

\* C4: after classify(), the overall precision report() prints is the sum,
\* over the scored partitions only, of precision * (partition rows / total
\* test rows), for every mix of scored and unscored partitions.
C4Original ==
    (Reported /\ ScoredPartitions # {}) => OverallLines = {OwnWeightSum}

\* C5: a partition whose labels contain a missing value gets no precision
\* line, adds nothing to the overall score, and a "no evaluation labels"
\* notice is printed, also when other partitions are scored.
C5Original ==
    (Reported /\ ScoredPartitions # DOMAIN splits) =>
        /\ \A i \in DOMAIN splits \ ScoredPartitions :
              ~ \E n \in DOMAIN out : out[n].line = "precision" /\ out[n].key = splits[i].key
        /\ OverallLines \subseteq {OwnWeightSum}
        /\ \E n \in DOMAIN out : out[n].line = "Target set has no evaluation labels"

\* C6: the constructor fails (no ensemble, no partition records) exactly when
\* a key split() emits has no entry in params; otherwise every partition
\* record holds the train, test and name split() gave it and the four fields
\* of params[key].
C6EnrichOrFail ==
    pc \in {"failed", "constructed"} =>
        LET emitted == split(train, test)
            missing == \E i \in DOMAIN emitted : emitted[i].key \notin DOMAIN params
        IN /\ missing <=> pc = "failed"
           /\ pc = "failed" => splits = <<>>
           /\ pc = "constructed" =>
                 /\ Len(splits) = Len(emitted)
                 /\ \A i \in DOMAIN splits :
                       /\ DOMAIN splits[i] = {"key", "train", "test", "name", "sample",
                                              "scaler", "ignore_features", "classifier"}
                       /\ splits[i].key = emitted[i].key
                       /\ splits[i].train = emitted[i].train
                       /\ splits[i].test = emitted[i].test
                       /\ splits[i].name = emitted[i].name
                       /\ \A f \in {"sample", "scaler", "ignore_features", "classifier"} :
                             splits[i][f] = params[splits[i].key][f]

C6Witness ==
    /\ pc = "failed"
    /\ Len(split(train, test)) = 2
    /\ Cardinality(DOMAIN params) = 1

\* C7: after the transform stage the training part of a partition with a
\* configured size s has min(s, len(train)) rows, distinct rows of the
\* training frame; size 0 leaves an empty training part.
C7Original ==
    pc = "transformed" =>
        \A i \in DOMAIN splits :
            splits[i].sample # None =>
                /\ Len(splits[i].train.X) = Min(splits[i].sample, Len(train.rows))
                /\ \A a, b \in DOMAIN splits[i].train.X :
                      splits[i].train.X[a].index = splits[i].train.X[b].index => a = b
                /\ \A a \in DOMAIN splits[i].train.X :
                      splits[i].train.X[a].index \in DOMAIN train.rows

\* C8: a classifier whose predict_proba is absent or raises does not make
\* classify fail: the partition's confidence is NaN in every row, and the
\* predictions and labels of this and of every other partition are written.
C8ConfidenceFailureRecovered ==
    pc \in {"classified", "dumped", "dump_raised", "report_raised", "classify_raised"} =>
        /\ pc # "classify_raised"
        /\ \A i \in DOMAIN splits : \A r \in DOMAIN splits[i].target.rows :
              LET data == splits[i].target.rows[r].data
              IN /\ DOMAIN data = {"returnQuantity", "confidence", "prediction"}
                 /\ data["prediction"] = splits[i].classifier.predicts
                 /\ data["returnQuantity"] = splits[i].test.Y[r]
                 /\ splits[i].classifier.proba # "ok" => data["confidence"] = NaN
                 /\ splits[i].classifier.proba = "ok" => data["confidence"] # NaN
        /\ \A i \in DOMAIN splits :
              splits[i].classifier.proba # "ok" =>
                  \E n \in DOMAIN out :
                      /\ out[n].line = "Classifier offers no predict_proba method"
                      /\ out[n].key = splits[i].key

C8Witness ==
    /\ pc = "classified"
    /\ Len(splits) = 2
    /\ splits[1].classifier.proba = "raises"
    /\ splits[2].classifier.proba = "absent"
    /\ \A r \in DOMAIN splits[1].target.rows :
          splits[1].target.rows[r].data["confidence"] = NaN

\* C10: dump_results() leaves the test frame handed to the constructor as
\* it was: the new columns go onto a copy.
C10Original == [][pc' = "dumped" => test' = test]_vars

====
